---------------------------- MODULE Spec2Model ----------------------------
(***************************************************************************)
(* A model of the eir intermediate representation: the lambda mangler      *)
(* (libeir_ir/src/fun/mangle.rs), the module container                     *)
(* (libeir_ir/src/module.rs), the function arena (eir/src/fun/mod.rs) and  *)
(* the scope discipline of pattern-clause lowering                         *)
(* (libeir_syntax_erl/src/lower/pattern/mod.rs).                           *)
(*                                                                         *)
(* Five specifications share the module: SpecMangle, SpecModule,           *)
(* SpecLower, SpecArena and SpecWalk (the scope walk of the mangler, one   *)
(* iteration of its loop per step).  Each one moves its own variables and  *)
(* leaves the others at their initial value.                               *)
(***************************************************************************)
EXTENDS Integers, Sequences, FiniteSets, TLC

VARIABLES
    fun,        \* the function a mangle reads from (and, for `run`, writes to)
    dst,        \* the destination function of `run_across`
    mangler,    \* the Mangler struct
    phase,      \* where the caller of the mangler stands
    ret,        \* the Block returned by the last `run`
    handles,    \* the EntryArg handles returned by add_argument since `start`
    last,       \* what the last run was given and what it built (history)
    heap,       \* the Function objects owned by the modules' definitions
    mods,       \* the Module values: the first one and its clones
    mphase,     \* "ok", or "aborted" once a call on a module panicked
    calls,      \* calls made on the modules and their functions
    mlast,      \* the last such call and the state it was made in (history)
    lctx,       \* the LowerCtx: the scope stack and the exception-handler stack
    lb,         \* the function under construction by the lowering's FunctionBuilder
    pre_case,   \* the caller's pre_case block, handed to lower_clause by reference
    lres,       \* the result of the last lower_clause call, and whether its token was popped
    llast,      \* the last lower_clause call and the state it was made in (history)
    afun,       \* a Function built call by call, with its block and value arenas
    areturned   \* the handles its calls returned, in call order (history)

mangleVars == <<fun, dst, mangler, phase, ret, handles, last>>

moduleVars == <<heap, mods, mphase, calls, mlast>>

lowerVars == <<lctx, lb, pre_case, lres, llast>>

arenaVars == <<afun, areturned>>

vars == <<fun, dst, mangler, phase, ret, handles, last, heap, mods, mphase, calls, mlast,
          lctx, lb, pre_case, lres, llast, afun, areturned>>

(***************************************************************************)
(* Bounds of the model.                                                    *)
(***************************************************************************)
\* add_argument calls per transaction
MaxEntryArgs == 2

\* calls made on the modules and their functions in one run
MaxCalls == 5

\* The generated source functions have one or two blocks of zero or one
\* argument each (the function of S1 has an entry of two), the rename map of
\* a transaction holds at most two entries (S1 needs two; a normalisation
\* conflict needs two keys naming one block).
SrcBlockCounts == {1, 2}
Arities == {0, 1}
RenameCounts == {0, 1, 2}

(***************************************************************************)
(* Values.  A Value handle is represented by the ValueType it indexes:     *)
(* an argument is created once per (block, position), constants and block  *)
(* values are interned, so kind and payload identify the handle.           *)
(***************************************************************************)
None == 0

ArgVal(b, i) == [kind |-> "Arg", block |-> b, n |-> i]
ConstVal(t) == [kind |-> "Constant", block |-> None, n |-> t]
BlockVal(b) == [kind |-> "Block", block |-> b, n |-> 0]
NoValue == [kind |-> "None", block |-> None, n |-> 0]

\* the constant term NilTerm
NilTerm == 0

Nil == ConstVal(NilTerm)

OpKinds == {"Call", "Unreachable"}

(***************************************************************************)
(* Function and FunctionBuilder.                                           *)
(***************************************************************************)
EmptyBlockData == [arguments |-> <<>>, op |-> "None", reads |-> <<>>]

EmptyFunction == [blocks |-> <<>>, entry_block |-> None]

block_insert_over_last(f) ==
    [f EXCEPT !.blocks = IF @ = <<>> THEN <<EmptyBlockData>>
                         ELSE [@ EXCEPT ![Len(@)] = EmptyBlockData]]

block_insert(f) ==
    [f EXCEPT !.blocks = Append(@, EmptyBlockData)]

\* the handle block_insert returns on f
next_block(f) == Len(f.blocks) + 1

block_arg_insert(f, b) ==
    [f EXCEPT !.blocks[b].arguments = Append(@, ArgVal(b, Len(@) + 1))]

block_args(f, b) == f.blocks[b].arguments

block_reads(f, b) == f.blocks[b].reads

block_kind(f, b) == f.blocks[b].op

value_kind(v) == v.kind

value_block(v) == IF v.kind = "Block" THEN v.block ELSE None

\* op_call(src, target, args): op = Call, reads = [target] ++ args
op_call(f, src, target, args) ==
    [f EXCEPT !.blocks[src].op = "Call", !.blocks[src].reads = <<target>> \o args]

op_unreachable(f, b) ==
    [f EXCEPT !.blocks[b].op = "Unreachable", !.blocks[b].reads = <<>>]

Range(s) == {s[i] : i \in DOMAIN s}

\* block_graph().outgoing(b): the blocks whose value form b reads
outgoing(f, b) == {value_block(v) : v \in {r \in Range(block_reads(f, b)) : r.kind = "Block"}}

RECURSIVE SetToSeq(_)
SetToSeq(S) ==
    IF S = {} THEN <<>>
    ELSE LET m == CHOOSE x \in S : \A y \in S : x <= y
         IN <<m>> \o SetToSeq(S \ {m})

RECURSIVE ReachFrom(_, _, _)
ReachFrom(f, frontier, seen) ==
    IF frontier \subseteq seen THEN seen
    ELSE LET now == seen \cup frontier
         IN ReachFrom(f, UNION {outgoing(f, b) : b \in frontier}, now)

\* the blocks reachable from b in f's block graph
Reach(f, b) == ReachFrom(f, {b}, {})

(***************************************************************************)
(* RenameSource, RenameDest.                                               *)
(***************************************************************************)
SrcValue(v) == [tag |-> "Value", val |-> v, blk |-> None]
SrcBlock(b) == [tag |-> "Block", val |-> NoValue, blk |-> b]

DstValue(v) == [tag |-> "Value", val |-> v, blk |-> None, idx |-> 0]
DstBlock(b) == [tag |-> "Block", val |-> NoValue, blk |-> b, idx |-> 0]
DstEntryArg(i) == [tag |-> "EntryArg", val |-> NoValue, blk |-> None, idx |-> i]

EmptyMap == [s \in {} |-> s]

MapInsert(map, k, d) == [s \in (DOMAIN map) \cup {k} |-> IF s = k THEN d ELSE map[s]]

MapRemove(map, k) == [s \in (DOMAIN map) \ {k} |-> map[s]]

(***************************************************************************)
(* Mangler.                                                                *)
(***************************************************************************)
New ==
    [entry |-> None, num_args |-> 0, map |-> EmptyMap,
     source_buf |-> <<>>, value_buf |-> <<>>, mapped_buf |-> <<>>,
     scope |-> {}, to_walk |-> <<>>]

ClearKeepsRenames(m) ==
    [m EXCEPT !.entry = None, !.source_buf = <<>>, !.value_buf = <<>>,
              !.mapped_buf = <<>>, !.scope = {}, !.to_walk = <<>>]

Clear(m) ==
    [m EXCEPT !.entry = None, !.num_args = 0, !.map = EmptyMap,
              !.source_buf = <<>>, !.value_buf = <<>>, !.mapped_buf = <<>>,
              !.scope = {}, !.to_walk = <<>>]

start(m, block) == [Clear(m) EXCEPT !.entry = block]

add_argument_off_by_one(m) ==
    [m |-> [m EXCEPT !.num_args = @ + 1], arg |-> m.num_args + 1]

\* the mangler after the call, and the EntryArg it returns
add_argument(m) ==
    [m |-> [m EXCEPT !.num_args = @ + 1], arg |-> m.num_args]

add_rename(m, old, new) == [m EXCEPT !.map = MapInsert(@, old, new)]


(***************************************************************************)
(* MangleReceiver.  A receiver is [kind, from, to]; SingleMangleReceiver   *)
(* reads and writes one function (`to`), CopyMangleReceiver reads `from`   *)
(* and writes `to`.  An operation that panics yields ok = FALSE.           *)
(***************************************************************************)
SingleMangleReceiver(f) == [kind |-> "Single", from |-> f, to |-> f]

CopyMangleReceiver(from, to) == [kind |-> "Copy", from |-> from, to |-> to]

From(r) == IF r.kind = "Single" THEN r.to ELSE r.from

To(r) == r.to

WithTo(r, g) == [r EXCEPT !.to = g]

map_const(r, val) ==
    IF r.kind = "Single" THEN [ok |-> TRUE, val |-> val]
    ELSE [ok |-> FALSE, val |-> NoValue]          \* unimplemented!()

map_free_value(r, val) ==
    IF r.kind = "Single" THEN [ok |-> TRUE, val |-> val]
    ELSE [ok |-> FALSE, val |-> NoValue]          \* panic!()

map_block_op(r, block) ==
    IF r.kind = "Single" /\ block_kind(From(r), block) # "None"
    THEN [ok |-> TRUE, op |-> block_kind(From(r), block)]
    ELSE [ok |-> FALSE, op |-> "None"]            \* unwrap of None, unimplemented!()

(***************************************************************************)
(* run_inner, pass by pass.                                                *)
(***************************************************************************)
RECURSIVE ArgInserts(_, _, _)
ArgInserts(f, b, n) ==
    IF n = 0 THEN f ELSE ArgInserts(block_arg_insert(f, b), b, n - 1)

\* Insert new entry block: the destination with the new entry and its
\* num_args arguments
insert_new_entry(to, num_args) ==
    ArgInserts(block_insert(to), next_block(to), num_args)

normalize_sources_skipped(source_buf, map) == [ok |-> TRUE, map |-> map]

RECURSIVE normalize_sources_unasserted(_, _)
normalize_sources_unasserted(source_buf, map) ==
    IF source_buf = {} THEN [ok |-> TRUE, map |-> map]
    ELSE LET key == CHOOSE k \in source_buf : TRUE
         IN  IF key.tag = "Value" /\ value_block(key.val) # None
             THEN normalize_sources_unasserted(source_buf \ {key},
                      MapRemove(MapInsert(map, SrcBlock(value_block(key.val)), map[key]), key))
             ELSE normalize_sources_unasserted(source_buf \ {key}, map)

\* Make sure no added rename sources are blocks.  The keys are visited in
\* the HashMap's order; a value key re-keys only the block it names and
\* value(block) is interned, so the visits do not interfere and any order
\* gives the same map.
RECURSIVE normalize_sources(_, _)
normalize_sources(source_buf, map) ==
    IF source_buf = {} THEN [ok |-> TRUE, map |-> map]
    ELSE LET key == CHOOSE k \in source_buf : TRUE
             dest == map[key]
             rest == source_buf \ {key}
         IN  IF key.tag = "Value" /\ value_block(key.val) # None
             THEN LET new_source == SrcBlock(value_block(key.val))
                  IN  IF new_source \in DOMAIN map /\ map[new_source] # dest
                      THEN [ok |-> FALSE, map |-> map]     \* assert!(*existing == dest)
                      ELSE normalize_sources(rest,
                               MapRemove(MapInsert(map, new_source, dest), key))
             ELSE normalize_sources(rest, map)

walk_scope_through_renames(f, map, to_walk, scope) ==
    (scope \cup ReachFrom(f, Range(to_walk), {})) \ {k.blk : k \in DOMAIN map}

\* Walk scope: the worklist loop
RECURSIVE walk_scope(_, _, _, _)
walk_scope(f, map, to_walk, scope) ==
    IF to_walk = <<>> THEN scope
    ELSE LET block == to_walk[Len(to_walk)]
             popped == SubSeq(to_walk, 1, Len(to_walk) - 1)
         IN  IF block \in scope
             THEN walk_scope(f, map, popped, scope)
             ELSE IF SrcBlock(block) \in DOMAIN map
             THEN walk_scope(f, map, popped, scope)
             ELSE walk_scope(f, map, popped \o SetToSeq(outgoing(f, block)),
                             scope \cup {block})

insert_new_arguments_overwrites(r, map, new_block, value_buf) ==
    [ok |-> TRUE,
     recv |-> WithTo(r, ArgInserts(To(r), new_block, Len(value_buf))),
     map |-> [s \in (DOMAIN map) \cup {SrcValue(value_buf[i]) : i \in DOMAIN value_buf} |->
                IF \E i \in DOMAIN value_buf : s = SrcValue(value_buf[i])
                THEN DstValue(ArgVal(new_block,
                         CHOOSE i \in DOMAIN value_buf : s = SrcValue(value_buf[i])))
                ELSE map[s]]]

\* Insert new arguments: one per source argument, renamed to the new
\* argument unless the source argument already has a rename
insert_new_arguments(r, map, new_block, value_buf) ==
    [ok |-> TRUE,
     recv |-> WithTo(r, ArgInserts(To(r), new_block, Len(value_buf))),
     map |-> [s \in (DOMAIN map) \cup {SrcValue(value_buf[i]) : i \in DOMAIN value_buf} |->
                IF s \in DOMAIN map THEN map[s]
                ELSE DstValue(ArgVal(new_block,
                         CHOOSE i \in DOMAIN value_buf : s = SrcValue(value_buf[i])))]]

insert_new_block_without_arguments(r, map, block) ==
    [ok |-> TRUE, recv |-> WithTo(r, block_insert(To(r))),
     map |-> MapInsert(map, SrcBlock(block), DstBlock(next_block(To(r))))]

\* one round of the loop "Insert new blocks"
insert_new_block(r, map, block) ==
    insert_new_arguments(WithTo(r, block_insert(To(r))),
                         MapInsert(map, SrcBlock(block), DstBlock(next_block(To(r)))),
                         next_block(To(r)),
                         block_args(From(r), block))

\* Insert new blocks, in the iteration order of the scope set
RECURSIVE insert_new_blocks(_, _, _)
insert_next(order, ins) == insert_new_blocks(ins.recv, ins.map, Tail(order))

insert_new_blocks(r, map, order) ==
    IF order = <<>> THEN [ok |-> TRUE, recv |-> r, map |-> map]
    ELSE IF SrcBlock(Head(order)) \in DOMAIN map
         THEN [ok |-> FALSE, recv |-> r, map |-> map]       \* assert!(!contains_key)
         ELSE insert_next(order, insert_new_block(r, map, Head(order)))

\* the first match of map_value: how the value is to be mapped
mapped_value(map, orig_value) ==
    IF value_kind(orig_value) = "Arg"
    THEN IF SrcValue(orig_value) \in DOMAIN map
         THEN [ok |-> TRUE, how |-> "RenameDest", d |-> map[SrcValue(orig_value)]]
         ELSE [ok |-> TRUE, how |-> "MapValue", d |-> DstValue(orig_value)]
    ELSE IF value_kind(orig_value) = "Constant"
    THEN [ok |-> TRUE, how |-> "MapConst", d |-> DstValue(orig_value)]
    ELSE IF value_kind(orig_value) = "Block" /\ SrcBlock(orig_value.block) \in DOMAIN map
    THEN [ok |-> TRUE, how |-> "RenameDest", d |-> map[SrcBlock(orig_value.block)]]
    ELSE [ok |-> FALSE, how |-> "None", d |-> DstValue(NoValue)]   \* unwrap of None

\* the second match of map_value: the value in the destination
resolve_mapped(r, new_entry, dest) ==
    IF ~dest.ok THEN [ok |-> FALSE, val |-> NoValue]
    ELSE IF dest.how = "MapConst" THEN map_const(r, dest.d.val)
    ELSE IF dest.how = "MapValue" THEN map_free_value(r, dest.d.val)
    ELSE IF dest.d.tag = "Value" THEN [ok |-> TRUE, val |-> dest.d.val]
    ELSE IF dest.d.tag = "EntryArg"
    THEN IF dest.d.idx + 1 \in DOMAIN block_args(To(r), new_entry)
         THEN [ok |-> TRUE, val |-> block_args(To(r), new_entry)[dest.d.idx + 1]]
         ELSE [ok |-> FALSE, val |-> NoValue]               \* index out of bounds
    ELSE [ok |-> TRUE, val |-> BlockVal(dest.d.blk)]        \* recv.to().value(block)

\* the closure map_value
map_value(map, r, new_entry, orig_value) ==
    resolve_mapped(r, new_entry, mapped_value(map, orig_value))

\* Update the new block with kind and reads
write_body(r, to_block, to_op, mapped) ==
    IF ~to_op.ok \/ \E n \in DOMAIN mapped : ~mapped[n].ok
    THEN [ok |-> FALSE, recv |-> r, value_buf |-> <<>>]
    ELSE [ok |-> TRUE,
          recv |-> WithTo(r, [To(r) EXCEPT
                      !.blocks[to_block].op = to_op.op,
                      !.blocks[to_block].reads = @ \o [n \in DOMAIN mapped |-> mapped[n].val]]),
          value_buf |-> [n \in DOMAIN mapped |-> mapped[n].val]]

mapped_reads_verbatim(map, r, new_entry, reads) ==
    [n \in DOMAIN reads |-> [ok |-> TRUE, val |-> reads[n]]]

\* Get and map reads to new values
mapped_reads(map, r, new_entry, reads) ==
    [n \in DOMAIN reads |-> map_value(map, r, new_entry, reads[n])]

\* the closure copy_body: the receiver after the copy, and the value buffer
copy_body(map, r, new_entry, from_block, to_block) ==
    write_body(r, to_block, map_block_op(r, from_block),
               mapped_reads(map, r, new_entry, block_reads(From(r), from_block)))

\* Set new bodies, in the iteration order of the scope set
RECURSIVE copy_bodies(_, _, _, _, _)
copy_next(map, new_entry, order, c) ==
    IF ~c.ok THEN c
    ELSE copy_bodies(map, c.recv, new_entry, Tail(order), c.value_buf)

copy_bodies(map, r, new_entry, order, value_buf) ==
    IF order = <<>> THEN [ok |-> TRUE, recv |-> r, value_buf |-> value_buf]
    ELSE copy_next(map, new_entry, order,
                   copy_body(map, r, new_entry, Head(order), map[SrcBlock(Head(order))].blk))

\* run_inner panicked: the receiver and the mangler as they stand
Panicked(recv, m) == [ok |-> FALSE, recv |-> recv, built |-> m, m |-> m]

\* run_inner returned: `built` is the mangler before the final clear()
Returned(recv, built) == [ok |-> TRUE, recv |-> recv, built |-> built, m |-> Clear(built)]

Walked(m, r, new_entry, norm) ==
    [ok |-> norm.ok, recv |-> r, new_entry |-> new_entry,
     m |-> [m EXCEPT !.map = norm.map,
                     !.scope = IF norm.ok
                               THEN walk_scope(From(r), norm.map, <<m.entry>>, m.scope)
                               ELSE m.scope]]

\* run_inner up to the end of "Walk scope"
run_walk(m, r) ==
    Walked(m, WithTo(r, insert_new_entry(To(r), m.num_args)), next_block(To(r)),
           normalize_sources(DOMAIN m.map, m.map))

BodiesCopied(w, map, bod) ==
    IF ~bod.ok THEN Panicked(bod.recv, [w.m EXCEPT !.map = map])
    ELSE Returned(bod.recv, [w.m EXCEPT !.map = map, !.value_buf = bod.value_buf])

EntryCopied(w, order, map, ent) ==
    IF ~ent.ok THEN Panicked(ent.recv, [w.m EXCEPT !.map = map])
    ELSE BodiesCopied(w, map, copy_bodies(map, ent.recv, w.new_entry, order, ent.value_buf))

BlocksInserted(w, order, ins) ==
    IF ~ins.ok THEN Panicked(ins.recv, w.m)
    ELSE EntryCopied(w, order, ins.map,
                     copy_body(ins.map, ins.recv, w.new_entry, w.m.entry, w.new_entry))

\* run_inner from "Insert new blocks" to its return; `order` is the
\* iteration order of the scope set
run_copy(w, order) ==
    IF ~w.ok THEN Panicked(w.recv, w.m)
    ELSE BlocksInserted(w, order, insert_new_blocks(w.recv, w.m.map, order))

\* the iteration orders of a HashSet
Orders(S) == {o \in [1..Cardinality(S) -> S] : \A i, j \in DOMAIN o : o[i] = o[j] => i = j}

(***************************************************************************)
(* The source functions of the model, each built with the builder's        *)
(* operations.  A generated function has its blocks' arguments and, per    *)
(* block, either op_unreachable or an op_call whose reads are the value    *)
(* forms of a set of target blocks, then every argument of the function,   *)
(* then the constant Nil: every kind of read occurs in every calling       *)
(* block, and the target sets give every control shape (chains, back       *)
(* edges to the entry, self loops, unreachable blocks).                    *)
(***************************************************************************)
RECURSIVE InsertBlocks(_, _, _)
InsertBlocks(f, arity, n) ==
    IF Len(f.blocks) = n THEN f
    ELSE InsertBlocks(ArgInserts(block_insert(f), next_block(f), arity[next_block(f)]),
                      arity, n)

RECURSIVE Concat(_)
Concat(ss) == IF ss = <<>> THEN <<>> ELSE Head(ss) \o Concat(Tail(ss))

AllArgs(f) == Concat([b \in DOMAIN f.blocks |-> block_args(f, b)])

BlockVals(bs) == [i \in DOMAIN bs |-> BlockVal(bs[i])]

Bodies(n) == [op : {"Unreachable"}, targets : {{}}] \cup [op : {"Call"}, targets : SUBSET (1..n)]

RECURSIVE SetBodies(_, _, _, _)
SetBodies(f, body, operands, b) ==
    IF b > Len(f.blocks) THEN f
    ELSE LET reads == BlockVals(SetToSeq(body[b].targets)) \o operands
             g == IF body[b].op = "Unreachable" THEN op_unreachable(f, b)
                  ELSE op_call(f, b, Head(reads), Tail(reads))
         IN  SetBodies(g, body, operands, b + 1)

Generated(n, arity, body) ==
    LET f == InsertBlocks(EmptyFunction, arity, n)
    IN  SetBodies(f, body, AllArgs(f) \o <<Nil>>, 1)

GeneratedFunctions ==
    UNION {{Generated(n, arity, body) :
              arity \in [1..n -> Arities], body \in [1..n -> Bodies(n)]} :
           n \in SrcBlockCounts}

\* scenario S1 (tests::test_simple_mangle): b1(ret, arg) calls b2, b2 calls ret(arg)
S1Function ==
    LET f1 == ArgInserts(block_insert(EmptyFunction), 1, 2)
        f2 == block_insert(f1)
        f3 == op_call(f2, 1, BlockVal(2), <<>>)
    IN  op_call(f3, 2, ArgVal(1, 1), <<ArgVal(1, 2)>>)

S1Renames ==
    MapInsert(MapInsert(EmptyMap, SrcValue(ArgVal(1, 1)), DstEntryArg(0)),
              SrcValue(ArgVal(1, 2)), DstValue(Nil))

\* a chain of three blocks: b1 calls b2, b2 calls b3, b3 is unreachable
ChainFunction ==
    LET f == block_insert(block_insert(block_insert(EmptyFunction)))
    IN  op_unreachable(op_call(op_call(f, 1, BlockVal(2), <<>>), 2, BlockVal(3), <<>>), 3)

SourceFunctions == GeneratedFunctions \cup {S1Function, ChainFunction}

\* what add_rename may be given on f: an argument, a block, or the value form of a block
RenameSources(f) ==
    {SrcValue(v) : v \in Range(AllArgs(f))}
    \cup {SrcBlock(b) : b \in DOMAIN f.blocks}
    \cup {SrcValue(BlockVal(b)) : b \in DOMAIN f.blocks}

\* ... and what it may be renamed to: a constant, a block, or an EntryArg
\* that add_argument returned in this transaction
RenameDests(f, hs) ==
    {DstValue(Nil)} \cup {DstBlock(b) : b \in DOMAIN f.blocks}
    \cup {DstEntryArg(h) : h \in Range(hs)}

NoRun ==
    [op |-> "none", src |-> EmptyFunction, entry |-> None, num_args |-> 0,
     renames |-> EmptyMap, map |-> EmptyMap, scope |-> {}, order |-> <<>>]

InitMangle ==
    /\ fun \in SourceFunctions
    /\ dst = EmptyFunction
    /\ mangler = New
    /\ phase = "idle"
    /\ ret = None
    /\ handles = <<>>
    /\ last = NoRun
    /\ heap = <<>> /\ mods = <<>> /\ mphase = "ok" /\ calls = 0
    /\ mlast = [op |-> "none"]
    /\ lctx = <<>> /\ lb = EmptyFunction /\ pre_case = None
    /\ lres = [status |-> "none"] /\ llast = [op |-> "none"]
    /\ afun = EmptyFunction /\ areturned = <<>>

Start(block) ==
    /\ phase \in {"idle", "started", "building"}
    /\ mangler' = start(mangler, block)
    /\ phase' = "started"
    /\ handles' = <<>>
    /\ UNCHANGED <<fun, dst, ret, last>>

AddArgument ==
    /\ phase \in {"started", "building"}
    /\ mangler.num_args < MaxEntryArgs
    /\ mangler' = add_argument(mangler).m
    /\ handles' = Append(handles, add_argument(mangler).arg)
    /\ phase' = "building"
    /\ UNCHANGED <<fun, dst, ret, last>>

AddRename(old, new) ==
    /\ phase \in {"started", "building"}
    /\ Cardinality((DOMAIN mangler.map) \cup {old}) \in RenameCounts
    /\ mangler' = add_rename(mangler, old, new)
    /\ phase' = "building"
    /\ UNCHANGED <<fun, dst, ret, handles, last>>

RunWith(op, recv) ==
    /\ phase \in {"started", "building"}
    /\ \E w \in {run_walk(mangler, recv)} :
         \E order \in Orders(w.m.scope) :
           \E c \in {run_copy(w, order)} :
             /\ phase' = IF c.ok THEN "ran" ELSE "aborted"
             /\ mangler' = c.m
             /\ fun' = From(c.recv)
             /\ dst' = IF op = "run" THEN dst ELSE To(c.recv)
             /\ ret' = IF c.ok THEN w.new_entry ELSE None
             /\ last' = [op |-> op, src |-> fun, entry |-> mangler.entry,
                         num_args |-> mangler.num_args, renames |-> mangler.map,
                         map |-> c.built.map, scope |-> w.m.scope, order |-> order]
             /\ UNCHANGED handles

\* Mangler::run
Run == RunWith("run", SingleMangleReceiver(fun))

\* Mangler::run_across, from `fun` into `dst`
RunAcross == RunWith("run_across", CopyMangleReceiver(fun, dst))

\* the caller turns to a function as the source was before the run,
\* keeping the mangler
NewFunction ==
    /\ phase = "ran"
    /\ fun' = last.src
    /\ phase' = "idle"
    /\ ret' = None
    /\ handles' = <<>>
    /\ last' = NoRun
    /\ UNCHANGED <<mangler, dst>>

NextMangle ==
    \/ (\E block \in DOMAIN fun.blocks : Start(block)) /\ UNCHANGED <<moduleVars, lowerVars, arenaVars>>
    \/ AddArgument /\ UNCHANGED <<moduleVars, lowerVars, arenaVars>>
    \/ (\E old \in RenameSources(fun), new \in RenameDests(fun, handles) : AddRename(old, new))
          /\ UNCHANGED <<moduleVars, lowerVars, arenaVars>>
    \/ Run /\ UNCHANGED <<moduleVars, lowerVars, arenaVars>>
    \/ RunAcross /\ UNCHANGED <<moduleVars, lowerVars, arenaVars>>
    \/ NewFunction /\ UNCHANGED <<moduleVars, lowerVars, arenaVars>>

SpecMangle == InitMangle /\ [][NextMangle]_vars

(***************************************************************************)
(* What a completed `run` built, read off the history `last`.              *)
(***************************************************************************)
RanOk == phase = "ran" /\ last.op = "run"

\* the fresh destination block allocated for the scope block b
ScopeCopy(b) == last.map[SrcBlock(b)].blk

\* the (source block, destination block) pairs whose body copy_body copied
CopiedPairs == {<<last.entry, ret>>} \cup {<<b, ScopeCopy(b)>> : b \in last.scope}

\* the block/argument bijection of the run: a scope block goes to its
\* destination block, its i-th argument to the i-th argument of that
\* block; every other value is kept
Image(v) ==
    IF v.kind = "Block" /\ v.block \in last.scope THEN BlockVal(ScopeCopy(v.block))
    ELSE IF v.kind = "Arg" /\ v.block \in last.scope
    THEN block_args(fun, ScopeCopy(v.block))[v.n]
    ELSE v

ImageSeq(reads) == [n \in DOMAIN reads |-> Image(reads[n])]

\* the value a rename destination stands for in the destination
DestValue(d) ==
    IF d.tag = "Value" THEN d.val
    ELSE IF d.tag = "EntryArg" THEN block_args(fun, ret)[d.idx + 1]
    ELSE BlockVal(d.blk)

\* some block of the scope transfers control back to the entry
BackEdge == \E b \in last.scope : last.entry \in outgoing(last.src, b)

\* the blocks named as rename sources, as a block key or as a value of kind Block
Frontier ==
    {s.blk : s \in {k \in DOMAIN last.renames : k.tag = "Block"}}
    \cup {s.val.block : s \in {k \in DOMAIN last.renames : k.tag = "Value" /\ k.val.kind = "Block"}}

\* the rename destination of a frontier block
Sigma(B) ==
    IF SrcBlock(B) \in DOMAIN last.renames THEN last.renames[SrcBlock(B)]
    ELSE last.renames[SrcValue(BlockVal(B))]

\* scenario S1 has run: start(b1), one add_argument, the renames of S1
S1Ran ==
    /\ RanOk /\ last.src = S1Function /\ last.entry = 1
    /\ last.num_args = 1 /\ last.renames = S1Renames

OnlyArgRenames ==
    \A s \in DOMAIN last.renames : s.tag = "Value" /\ s.val.kind = "Arg"

(***************************************************************************)
(* C1 as stated: after start(entry) and run with no add_rename, the        *)
(* subgraph reachable from the returned entry is isomorphic to the         *)
(* subgraph reachable from the original entry, the returned entry being    *)
(* the counterpart of the original entry: as many reachable blocks, each   *)
(* with the argument count, the op kind and the mapped reads of its        *)
(* counterpart.                                                            *)
(***************************************************************************)
Counterpart(b) == IF b = last.entry THEN ret ELSE ScopeCopy(b)

CounterpartValue(v) ==
    IF v.kind = "Block" /\ v.block \in last.scope THEN BlockVal(Counterpart(v.block))
    ELSE IF v.kind = "Arg" /\ v.block \in last.scope THEN ArgVal(Counterpart(v.block), v.n)
    ELSE v

MangleIdentityIsomorphic ==
    (RanOk /\ last.renames = EmptyMap) =>
        /\ Cardinality(Reach(fun, ret)) = Cardinality(Reach(last.src, last.entry))
        /\ \A b \in Reach(last.src, last.entry) :
            /\ Len(block_args(fun, Counterpart(b))) = Len(block_args(last.src, b))
            /\ block_kind(fun, Counterpart(b)) = block_kind(last.src, b)
            /\ block_reads(fun, Counterpart(b))
                 = [n \in DOMAIN block_reads(last.src, b) |->
                       CounterpartValue(block_reads(last.src, b)[n])]

(***************************************************************************)
(* C1 as amended: after start(entry) and run with no add_rename, every     *)
(* block reachable from the original entry, the entry included, has        *)
(* exactly one fresh scope copy with the same argument count and op kind   *)
(* and with the reads mapped by the block/argument bijection; the          *)
(* returned entry is one more copy of the entry's body, with as many       *)
(* arguments as add_argument was called and the entry's reads mapped by    *)
(* the same bijection.  The blocks reachable from the returned entry are   *)
(* itself and the scope copies of the other reachable blocks, and the      *)
(* scope copy of the entry exactly when some reachable block transfers     *)
(* control back to the entry.  The source blocks are left as they were.    *)
(***************************************************************************)
MangleIdentityScopeCopy ==
    (RanOk /\ last.renames = EmptyMap) =>
        /\ last.scope = Reach(last.src, last.entry)
        /\ ret \notin DOMAIN last.src.blocks
        /\ Len(block_args(fun, ret)) = last.num_args
        /\ block_kind(fun, ret) = block_kind(last.src, last.entry)
        /\ block_reads(fun, ret) = ImageSeq(block_reads(last.src, last.entry))
        /\ \A b \in last.scope :
            /\ ScopeCopy(b) \notin (DOMAIN last.src.blocks) \cup {ret}
            /\ \A c \in last.scope : ScopeCopy(c) = ScopeCopy(b) => c = b
            /\ Len(block_args(fun, ScopeCopy(b))) = Len(block_args(last.src, b))
            /\ block_kind(fun, ScopeCopy(b)) = block_kind(last.src, b)
            /\ block_reads(fun, ScopeCopy(b)) = ImageSeq(block_reads(last.src, b))
        /\ Reach(fun, ret)
             = {ret} \cup {ScopeCopy(b) : b \in {c \in last.scope : c # last.entry \/ BackEdge}}
        /\ \A b \in DOMAIN last.src.blocks : fun.blocks[b] = last.src.blocks[b]

\* C1's case: an entry with arguments that another block transfers back to
MangleIdentityRan ==
    /\ RanOk /\ last.renames = EmptyMap
    /\ Len(block_args(last.src, last.entry)) > 0
    /\ \E b \in last.scope : b # last.entry /\ last.entry \in outgoing(last.src, b)

(***************************************************************************)
(* C2: when the rename map holds only renames of arguments (arg_k ->       *)
(* EntryArg(i), arg_m -> v), every read of a copied block that was a       *)
(* renamed argument is what its rename stands for (the i-th argument of    *)
(* the returned entry, v itself), and every other read is the image of     *)
(* the source read under the block/argument bijection.  In scenario S1     *)
(* the returned block has 1 argument and 1 read, a block new_b2 # b2 with  *)
(* 0 arguments and the reads [new_b1.args[0], value(Nil)].                 *)
(***************************************************************************)
RenamedArgumentReads ==
    /\ (RanOk /\ OnlyArgRenames /\ last.renames # EmptyMap) =>
          \A p \in CopiedPairs :
            /\ DOMAIN block_reads(fun, p[2]) = DOMAIN block_reads(last.src, p[1])
            /\ \A n \in DOMAIN block_reads(last.src, p[1]) :
                 block_reads(fun, p[2])[n] =
                    IF SrcValue(block_reads(last.src, p[1])[n]) \in DOMAIN last.renames
                    THEN DestValue(last.renames[SrcValue(block_reads(last.src, p[1])[n])])
                    ELSE Image(block_reads(last.src, p[1])[n])
    /\ S1Ran =>
          /\ Len(block_args(fun, ret)) = 1
          /\ Len(block_reads(fun, ret)) = 1
          /\ value_block(block_reads(fun, ret)[1]) \notin {None, 2}
          /\ \E new_b2 \in {value_block(block_reads(fun, ret)[1])} :
                /\ Len(block_args(fun, new_b2)) = 0
                /\ block_reads(fun, new_b2) = <<block_args(fun, ret)[1], Nil>>

\* C2's case: scenario S1 has run and returned a block
RenamedArgumentRan == S1Ran /\ ret \in DOMAIN fun.blocks


(***************************************************************************)
(* C3 as stated: a block named as a rename source is never copied into     *)
(* the destination, and every read of it in a copied block is replaced by  *)
(* what its rename destination stands for.                                 *)
(***************************************************************************)
FrontierNeverCopied ==
    RanOk =>
        \A B \in Frontier :
            /\ \A p \in CopiedPairs : p[1] # B
            /\ \A p \in CopiedPairs : \A n \in DOMAIN block_reads(last.src, p[1]) :
                 block_reads(last.src, p[1])[n] = BlockVal(B)
                    => block_reads(fun, p[2])[n] = DestValue(Sigma(B))

(***************************************************************************)
(* C3 as amended: a block named as a rename source is never in the scope   *)
(* and gets no scope copy (its rename stays the one given); its body is    *)
(* copied only when it is the entry block itself, into the returned entry  *)
(* block; every read of it in a copied block is replaced by what its       *)
(* rename destination stands for.                                          *)
(***************************************************************************)
FrontierNoScopeCopy ==
    RanOk =>
        \A B \in Frontier :
            /\ B \notin last.scope
            /\ last.map[SrcBlock(B)] = Sigma(B)
            /\ \A p \in CopiedPairs : p[1] = B => p = <<last.entry, ret>>
            /\ \A p \in CopiedPairs : \A n \in DOMAIN block_reads(last.src, p[1]) :
                 block_reads(last.src, p[1])[n] = BlockVal(B)
                    => block_reads(fun, p[2])[n] = DestValue(Sigma(B))

\* C3's case: a renamed block, named by its value form, that a copied block reads
FrontierRan ==
    /\ RanOk
    /\ \E B \in Frontier :
        /\ B # last.entry
        /\ SrcValue(BlockVal(B)) \in DOMAIN last.renames
        /\ \E b \in last.scope : B \in outgoing(last.src, b)

(***************************************************************************)
(* C4 as stated: run_across, called after start(entry) on a source         *)
(* function whose entry block has an operation, returns; the destination   *)
(* then holds a copy of the entry, and the source function is unchanged.   *)
(***************************************************************************)
RunAcrossCopies ==
    last.op = "run_across" =>
        /\ phase = "ran"
        /\ fun = last.src
        /\ ret \in DOMAIN dst.blocks
        /\ block_kind(dst, ret) = block_kind(last.src, last.entry)

(***************************************************************************)
(* C5: the k-th add_argument call after start returns EntryArg(k-1); the   *)
(* block run returns has exactly as many arguments as add_argument was     *)
(* called, whatever the arity of the original entry; a read renamed to an  *)
(* EntryArg is that argument of the returned block.                        *)
(***************************************************************************)
EntryArgShape ==
    /\ phase \in {"started", "building"} =>
          /\ Len(handles) = mangler.num_args
          /\ \A k \in DOMAIN handles : handles[k] = k - 1
    /\ RanOk =>
          /\ Len(block_args(fun, ret)) = last.num_args
          /\ \A k \in 1..last.num_args : block_args(fun, ret)[k] = ArgVal(ret, k)
          /\ \A p \in CopiedPairs : \A n \in DOMAIN block_reads(last.src, p[1]) :
               \A s \in {SrcValue(block_reads(last.src, p[1])[n]),
                         SrcBlock(value_block(block_reads(last.src, p[1])[n]))} :
                 (s \in DOMAIN last.map /\ last.map[s].tag = "EntryArg")
                    => block_reads(fun, p[2])[n] = ArgVal(ret, last.map[s].idx + 1)

\* C5's case: two entry arguments on an entry of another arity, the second one read
EntryArgShapeRan ==
    /\ RanOk
    /\ last.num_args = 2
    /\ Len(block_args(last.src, last.entry)) # 2
    /\ \E n \in DOMAIN block_reads(fun, ret) : block_reads(fun, ret)[n] = ArgVal(ret, 2)

(***************************************************************************)
(* C6: after run returns the mangler is as Mangler::new() left it (no      *)
(* entry, no entry arguments, no renames, an empty scope, empty buffers),  *)
(* and right after start it holds the entry and nothing recorded before:   *)
(* a transaction on a used mangler starts from the state it starts from    *)
(* on a fresh one.                                                         *)
(***************************************************************************)
ManglerReuse ==
    /\ phase \in {"idle", "ran"} => mangler = New
    /\ phase = "started" =>
          /\ mangler.entry \in DOMAIN fun.blocks
          /\ mangler = [New EXCEPT !.entry = mangler.entry]
          /\ handles = <<>>

\* C6's case: a run with entry arguments, renames and a scope has returned
ManglerClearedAfterRun ==
    /\ RanOk
    /\ last.num_args > 0
    /\ last.renames # EmptyMap
    /\ last.scope # {}

(***************************************************************************)
(* Module: a named container of FunctionDefinitions.                       *)
(*                                                                         *)
(* A FunctionDefinition owns its Function.  The Functions are kept in      *)
(* `heap` and a definition holds the position of its own, so that whether  *)
(* two definitions hold one Function or two equal ones is part of the      *)
(* state.  A FunctionIndex is the 0-based position PrimaryMap::push gave.  *)
(***************************************************************************)
UNKNOWN == 0

ModuleNames == {"m"}
Spans == {UNKNOWN, 1}
Symbols == {"f", "g"}
FunArities == {0, 1}

FunctionIdent(module, name, arity) == [module |-> module, name |-> name, arity |-> arity]

\* Function::new: no entry block set, all arenas empty
Function_new(ident) ==
    [ident |-> ident, blocks |-> <<>>, values |-> <<>>, fun_refs |-> <<>>,
     entry_block |-> None]

block_set_entry(f, block) == [f EXCEPT !.entry_block = block]

block_entry(f) == f.entry_block

FunctionDefinition(index, f) == [index |-> index, fun |-> f]

Module_new(name) ==
    [name |-> name, span |-> UNKNOWN, functions |-> <<>>, name_map |-> EmptyMap]

Module_new_with_span(name, span) ==
    [name |-> name, span |-> span, functions |-> <<>>, name_map |-> EmptyMap]

\* PrimaryMap::push: the key of the pushed element
push_index(functions) == Len(functions)

\* the definition of a FunctionIndex
def_at(m, index) == m.functions[index + 1]

\* Option<FunctionIndex>: <<>> for None, <<index>> for Some(index)
ident_index(m, ident) ==
    IF <<ident.name, ident.arity>> \in DOMAIN m.name_map
    THEN <<m.name_map[<<ident.name, ident.arity>>]>> ELSE <<>>

name_arity_index(m, name, arity) ==
    IF <<name, arity>> \in DOMAIN m.name_map THEN <<m.name_map[<<name, arity>>]>> ELSE <<>>

add_function_unchecked(h, m, name, arity) ==
    [ok |-> TRUE,
     heap |-> Append(h, Function_new(FunctionIdent(m.name, name, arity))),
     mod |-> [m EXCEPT
                !.functions = Append(@, FunctionDefinition(push_index(m.functions), Len(h) + 1)),
                !.name_map = MapInsert(@, <<name, arity>>, push_index(m.functions))]]

\* add_function: panics on a (name, arity) already present; otherwise pushes
\* the definition, records its index in the name map and in the definition
add_function(h, m, name, arity) ==
    IF <<name, arity>> \in DOMAIN m.name_map
    THEN [ok |-> FALSE, heap |-> h, mod |-> m]
    ELSE [ok |-> TRUE,
          heap |-> Append(h, Function_new(FunctionIdent(m.name, name, arity))),
          mod |-> [m EXCEPT
                     !.functions = Append(@, FunctionDefinition(push_index(m.functions), Len(h) + 1)),
                     !.name_map = MapInsert(@, <<name, arity>>, push_index(m.functions))]]

\* the key (name, arity) of the function of a definition
key_of(h, def) == <<h[def.fun].ident.name, h[def.fun].ident.arity>>

\* BTreeMap::insert in definition order: the last index inserted under k
inserted_last(h, m, k) ==
    CHOOSE x \in 0..(Len(m.functions) - 1) :
        /\ k = key_of(h, m.functions[x + 1])
        /\ \A y \in 0..(Len(m.functions) - 1) : k = key_of(h, m.functions[y + 1]) => y <= x

clone_sharing_functions(h, m) ==
    [heap |-> h,
     mod |-> [name |-> m.name, span |-> m.span,
              functions |-> [i \in DOMAIN m.functions |-> FunctionDefinition(0, m.functions[i].fun)],
              name_map |-> [k \in {key_of(h, m.functions[i]) : i \in DOMAIN m.functions} |->
                              inserted_last(h, m, k)]]]

\* impl Clone for Module: every definition, in order, gets a clone of its
\* Function under the index FunctionIndex(0), and the name map is rebuilt
\* from the idents of the functions
clone(h, m) ==
    [heap |-> h \o [i \in DOMAIN m.functions |-> h[m.functions[i].fun]],
     mod |-> [name |-> m.name, span |-> m.span,
              functions |-> [i \in DOMAIN m.functions |-> FunctionDefinition(0, Len(h) + i)],
              name_map |-> [k \in {key_of(h, m.functions[i]) : i \in DOMAIN m.functions} |->
                              inserted_last(h, m, k)]]]

NoCall == [op |-> "none"]

\* the record of a call: what was called on which module with which
\* arguments, and the modules and functions as they were
Call(op, m, args) ==
    [op |-> op, mod |-> m, args |-> args, heap |-> heap, mods |-> mods]

InitModule ==
    /\ \E name \in ModuleNames :
         \/ mods = <<Module_new(name)>>
         \/ \E span \in Spans \ {UNKNOWN} : mods = <<Module_new_with_span(name, span)>>
    /\ heap = <<>>
    /\ mphase = "ok"
    /\ calls = 0
    /\ mlast = NoCall
    /\ fun = EmptyFunction /\ dst = EmptyFunction /\ mangler = New /\ phase = "idle"
    /\ ret = None /\ handles = <<>> /\ last = NoRun
    /\ lctx = <<>> /\ lb = EmptyFunction /\ pre_case = None
    /\ lres = [status |-> "none"] /\ llast = [op |-> "none"]
    /\ afun = EmptyFunction /\ areturned = <<>>

Called == mphase = "ok" /\ calls < MaxCalls /\ calls' = calls + 1

AddFunction(m, name, arity) ==
    /\ Called
    /\ \E r \in {add_function(heap, mods[m], name, arity)} :
         /\ mphase' = IF r.ok THEN "ok" ELSE "aborted"
         /\ heap' = r.heap
         /\ mods' = [mods EXCEPT ![m] = r.mod]
    /\ mlast' = Call("add_function", m, <<name, arity>>)

CloneModule(m) ==
    /\ Called
    /\ \E r \in {clone(heap, mods[m])} :
         /\ heap' = r.heap
         /\ mods' = Append(mods, r.mod)
    /\ mlast' = Call("clone", m, <<>>)
    /\ UNCHANGED mphase

\* def.function_mut().block_insert() on the definition `index` of module m
BlockInsert(m, index) ==
    /\ Called
    /\ heap' = [heap EXCEPT ![def_at(mods[m], index).fun] = block_insert(@)]
    /\ mlast' = Call("block_insert", m, <<index>>)
    /\ UNCHANGED <<mods, mphase>>

\* def.function_mut().block_set_entry(block) on the definition `index` of module m
BlockSetEntry(m, index, block) ==
    /\ Called
    /\ heap' = [heap EXCEPT ![def_at(mods[m], index).fun] = block_set_entry(@, block)]
    /\ mlast' = Call("block_set_entry", m, <<index, block>>)
    /\ UNCHANGED <<mods, mphase>>

NextModule ==
    \/ (\E m \in DOMAIN mods, name \in Symbols, arity \in FunArities : AddFunction(m, name, arity))
          /\ UNCHANGED <<mangleVars, lowerVars, arenaVars>>
    \/ (\E m \in DOMAIN mods : CloneModule(m)) /\ UNCHANGED <<mangleVars, lowerVars, arenaVars>>
    \/ (\E m \in DOMAIN mods : \E index \in 0..(Len(mods[m].functions) - 1) :
            BlockInsert(m, index)) /\ UNCHANGED <<mangleVars, lowerVars, arenaVars>>
    \/ (\E m \in DOMAIN mods : \E index \in 0..(Len(mods[m].functions) - 1) :
          \E block \in DOMAIN heap[def_at(mods[m], index).fun].blocks :
            BlockSetEntry(m, index, block)) /\ UNCHANGED <<mangleVars, lowerVars, arenaVars>>

SpecModule == InitModule /\ [][NextModule]_vars

(***************************************************************************)
(* What the last call on a module was made on, read off the history.       *)
(***************************************************************************)
\* the module the last call was made on, before and after the call
ModBefore == mlast.mods[mlast.mod]
ModAfter == mods[mlast.mod]

\* the function the last block_insert / block_set_entry call was made on
FunBefore == mlast.heap[def_at(ModBefore, mlast.args[1]).fun]
FunAfter == heap[def_at(ModAfter, mlast.args[1]).fun]

\* what a module holds: its name and span, its functions in FunctionIndex
\* order, and its name map
Content(m, h) ==
    [name |-> m.name, span |-> m.span, name_map |-> m.name_map,
     functions |-> [i \in DOMAIN m.functions |-> h[m.functions[i].fun]]]

(***************************************************************************)
(* C7 as stated: after block_set_entry(b1), a second block_set_entry(b2)   *)
(* on the same function aborts and leaves the entry block as it was: the   *)
(* entry block is set exactly once.                                        *)
(***************************************************************************)
SetEntryTwiceAborts ==
    (mlast.op = "block_set_entry" /\ block_entry(FunBefore) # None) =>
        /\ mphase = "aborted"
        /\ block_entry(FunAfter) = block_entry(FunBefore)

(***************************************************************************)
(* C8: no two functions of a module share the same (name, arity);          *)
(* add_function with a (name, arity) already present aborts without        *)
(* adding a function; otherwise ident_index and name_arity_index for that  *)
(* (name, arity) return the index of the added definition, which holds a   *)
(* function of that identity, and the definitions and indices of all       *)
(* earlier functions are unchanged.                                        *)
(***************************************************************************)
ModuleUniqueness ==
    /\ \A m \in DOMAIN mods : \A i, j \in DOMAIN mods[m].functions :
          (/\ heap[mods[m].functions[i].fun].ident.name = heap[mods[m].functions[j].fun].ident.name
           /\ heap[mods[m].functions[i].fun].ident.arity = heap[mods[m].functions[j].fun].ident.arity)
             => i = j
    /\ mlast.op = "add_function" =>
          IF <<mlast.args[1], mlast.args[2]>> \in DOMAIN ModBefore.name_map
          THEN /\ mphase = "aborted"
               /\ mods = mlast.mods
               /\ heap = mlast.heap
          ELSE /\ mphase = "ok"
               /\ Len(ModAfter.functions) = Len(ModBefore.functions) + 1
               /\ name_arity_index(ModAfter, mlast.args[1], mlast.args[2])
                    = <<Len(ModBefore.functions)>>
               /\ ident_index(ModAfter, FunctionIdent(ModAfter.name, mlast.args[1], mlast.args[2]))
                    = <<Len(ModBefore.functions)>>
               /\ def_at(ModAfter, Len(ModBefore.functions)).index = Len(ModBefore.functions)
               /\ heap[def_at(ModAfter, Len(ModBefore.functions)).fun]
                    = Function_new(FunctionIdent(ModAfter.name, mlast.args[1], mlast.args[2]))
               /\ \A i \in DOMAIN ModBefore.functions :
                    /\ ModAfter.functions[i] = ModBefore.functions[i]
                    /\ heap[ModAfter.functions[i].fun] = mlast.heap[ModBefore.functions[i].fun]
               /\ \A k \in DOMAIN ModBefore.name_map :
                    name_arity_index(ModAfter, k[1], k[2]) = <<ModBefore.name_map[k]>>

\* C8's case: add_function called with a (name, arity) already present in a
\* module of two functions
AddFunctionTwice ==
    /\ mlast.op = "add_function"
    /\ <<mlast.args[1], mlast.args[2]>> \in DOMAIN ModBefore.name_map
    /\ Len(ModBefore.functions) = 2

(***************************************************************************)
(* C9: the clone of a module has the same name and span, the same          *)
(* functions in the same FunctionIndex order and a name map sending every  *)
(* (name, arity) to the same index as the original, and cloning leaves     *)
(* the original as it was; every function of the clone is a copy of its    *)
(* own, so a call that changes a function of one module (or adds one to    *)
(* it) leaves every other module as it was.                                *)
(***************************************************************************)
ModuleCloneDeep ==
    /\ mlast.op = "clone" =>
          /\ Len(mods) = Len(mlast.mods) + 1
          /\ Content(mods[Len(mods)], heap) = Content(ModBefore, mlast.heap)
          /\ \A k \in DOMAIN ModBefore.name_map :
               name_arity_index(mods[Len(mods)], k[1], k[2]) = <<ModBefore.name_map[k]>>
          /\ \A o \in DOMAIN mlast.mods : Content(mods[o], heap) = Content(mlast.mods[o], mlast.heap)
    /\ mlast.op \in {"block_insert", "block_set_entry", "add_function"} =>
          \A o \in (DOMAIN mods) \ {mlast.mod} :
              Content(mods[o], heap) = Content(mlast.mods[o], mlast.heap)

\* C9's case: a function of the clone was changed after the clone was made,
\* and differs now from the function of the original it was cloned from
CloneMutated ==
    /\ mlast.op \in {"block_insert", "block_set_entry"}
    /\ mlast.mod = 2
    /\ mlast.args[1] < Len(mods[1].functions)
    /\ FunAfter # FunBefore
    /\ FunAfter.ident = heap[def_at(mods[1], mlast.args[1]).fun].ident
    /\ FunAfter # heap[def_at(mods[1], mlast.args[1]).fun]

(***************************************************************************)
(* Pattern-clause lowering.                                                *)
(*                                                                         *)
(* lower_clause works on a LowerCtx (a scope stack of frames mapping       *)
(* variable names to values, and an exception-handler stack), on the       *)
(* FunctionBuilder of the function under construction, and on the          *)
(* caller's pre_case block.  The pattern Tree is represented by what it    *)
(* hands to lower_clause: the blocks add_root chains after pre_case, the   *)
(* unmatchable flag, the binds, the auxiliary equality guards and the      *)
(* values of the clause.                                                   *)
(***************************************************************************)
FalseTerm == 1
TrueTerm == 2
ErlangAtom == 3
ExactEqAtom == 4
TwoTerm == 5

\* lower_clause calls in one run
MaxClauses == 2

\* frames the caller itself pushes on the scope stack
MaxCallerFrames == 1

\* the names the caller binds itself
CallerNames == {"A"}

\* Option<Ident>: None
NoIdent == "_"

\* the value a pseudo-bind binds a name to
Sentinel == ConstVal(NilTerm)

EqValue(lhs, v) == [tag |-> "EqValue", lhs |-> lhs, rhs |-> 0, val |-> v]
EqBind(lhs, rhs) == [tag |-> "EqBind", lhs |-> lhs, rhs |-> rhs, val |-> NoValue]

\* LowerCtx with the root frame
LowerCtx_new == [scope |-> <<EmptyMap>>, exc_stack |-> <<>>]

\* scope.push(): a new frame on top; the token names the height it makes
scope_push(ctx) == [ctx EXCEPT !.scope = Append(@, EmptyMap)]

scope_token(ctx) == Len(ctx.scope) + 1

\* scope.pop(token): the frame of the token must be the top one
scope_pop(ctx, token) ==
    IF Len(ctx.scope) = token /\ token > 1
    THEN [ok |-> TRUE, ctx |-> [ctx EXCEPT !.scope = SubSeq(@, 1, token - 1)]]
    ELSE [ok |-> FALSE, ctx |-> ctx]

\* ctx.bind(name, val): binds in the top frame
bind(ctx, name, val) == [ctx EXCEPT !.scope[Len(ctx.scope)] = MapInsert(@, name, val)]

push_handler(ctx, val) == [ctx EXCEPT !.exc_stack = Append(@, val)]

pop_handler(ctx) == [ctx EXCEPT !.exc_stack = SubSeq(@, 1, Len(@) - 1)]

\* the binds of a clause, bound in order to the arguments of `block` that
\* follow its first `skip` arguments; unnamed binds bind nothing
RECURSIVE bind_args(_, _, _, _, _)
bind_args(ctx, binds, block, skip, i) ==
    IF i > Len(binds) THEN ctx
    ELSE bind_args(IF binds[i] = NoIdent THEN ctx
                   ELSE bind(ctx, binds[i], ArgVal(block, skip + i)),
                   binds, block, skip, i + 1)

\* the pattern container of the builder: clause_start and clause_value
pat_clause_start(b) == [b EXCEPT !.pat = Append(@, 0)]

pat_clause_value(b, clause) == [b EXCEPT !.pat[clause] = @ + 1]

\* a block with n arguments inserted by the builder
block_with_args(b, n) == ArgInserts(block_insert(b), next_block(b), n)

\* Tree::add_root, for the value-producing sub-expressions of the patterns:
\* each is lowered into pre_case, which then continues in a new block whose
\* argument is the value
RECURSIVE tree_add_root(_, _, _)
tree_add_root(b, block, chain) ==
    IF chain = 0 THEN [b |-> b, pre_case |-> block]
    ELSE tree_add_root(op_call(block_with_args(b, 1), block, BlockVal(next_block(b)), <<>>),
                       next_block(b), chain - 1)

\* Tree::pseudo_bind: every variable name of the pattern is bound to a sentinel
RECURSIVE pseudo_bind(_, _, _)
pseudo_bind(ctx, binds, i) ==
    IF i > Len(binds) THEN ctx
    ELSE pseudo_bind(IF binds[i] = NoIdent THEN ctx ELSE bind(ctx, binds[i], Sentinel),
                     binds, i + 1)

\* ClauseLowerCtx::clause_value: the slot of a value already in value_dedup,
\* or else a new slot of the clause for the value
clause_value(cc, b, val) ==
    IF val \in DOMAIN cc.value_dedup
    THEN [cc |-> cc, b |-> b, pat_val |-> cc.value_dedup[val]]
    ELSE [cc |-> [cc EXCEPT !.values = Append(@, val)],
          b |-> pat_clause_value(b, cc.pat_clause),
          pat_val |-> b.pat[cc.pat_clause] + 1]

\* Tree::lower: the binds and equality guards of the tree are recorded and
\* every value of the pattern gets its slot through clause_value
RECURSIVE tree_values(_, _, _)
tree_values(cc, b, vals) ==
    IF vals = <<>> THEN [cc |-> cc, b |-> b]
    ELSE tree_values(clause_value(cc, b, Head(vals)).cc,
                     clause_value(cc, b, Head(vals)).b, Tail(vals))

tree_lower(cc, b, input) ==
    tree_values([cc EXCEPT !.binds = input.binds, !.eq_guards = input.eq_guards],
                b, input.vals)

\* lower_clause up to tree.process: the assertion on pre_case, the clause
\* start, the ClauseLowerCtx and the roots of the tree
lower_clause_tree(b, block, input) ==
    IF block_kind(b, block) # "None"
    THEN [ok |-> FALSE, b |-> b, pre_case |-> block, pat_clause |-> None]
    ELSE [ok |-> TRUE,
          b |-> tree_add_root(pat_clause_start(b), block, input.chain).b,
          pre_case |-> tree_add_root(pat_clause_start(b), block, input.chain).pre_case,
          pat_clause |-> Len(b.pat) + 1]

ClauseLowerCtx(pat_clause, block) ==
    [pat_clause |-> pat_clause, pre_case |-> block, binds |-> <<>>, values |-> <<>>,
     eq_guards |-> <<>>, value_dedup |-> EmptyMap]

lower_clause_unmatchable_binds_first(ctx, binds) ==
    [ctx |-> scope_push(pseudo_bind(ctx, binds, 1)), scope_token |-> scope_token(ctx)]

\* lower_clause on an unmatchable tree: a scope is pushed, the pseudo-binds
\* are issued and the token of the push is returned
lower_clause_unmatchable(ctx, binds) ==
    [ctx |-> pseudo_bind(scope_push(ctx), binds, 1), scope_token |-> scope_token(ctx)]

\* op_capture_function(block, m, f, a): block captures the function and
\* continues in a new block whose argument is the captured function
op_capture_function(b, block, m, f, a) ==
    [block_with_args(b, 1) EXCEPT
        !.blocks[block].op = "CaptureFunction",
        !.blocks[block].reads = <<BlockVal(next_block(b)), m, f, a>>]

\* IntrinsicBuilder::finish: the intrinsic with its operands becomes the op of block
intrinsic_finish(b, block, name, values) ==
    [b EXCEPT !.blocks[block].op = name, !.blocks[block].reads = values]

\* the operands of an auxiliary equality guard: arguments of the guard
\* lambda that follow the return continuation, or the value of the guard
eq_lhs_from_ret_cont(b, glb, eq_guard) == block_args(b, glb)[eq_guard.lhs + 1]

eq_lhs(b, glb, eq_guard) == block_args(b, glb)[eq_guard.lhs + 2]

eq_rhs(b, glb, eq_guard) ==
    IF eq_guard.tag = "EqValue" THEN eq_guard.val ELSE block_args(b, glb)[eq_guard.rhs + 2]

\* one auxiliary guard: next_block (nb) takes the result, block captures
\* erlang:'=:='/2 and continues in nb + 1, which calls it with nb and the
\* unreachable block nb + 2 as continuations
aux_guard(b, glb, block, top_and, eq_guard, nb) ==
    [b |-> op_call(
              op_unreachable(
                  block_with_args(
                      op_capture_function(block_with_args(b, 1), block, ConstVal(ErlangAtom),
                                          ConstVal(ExactEqAtom), ConstVal(TwoTerm)),
                      3),
                  nb + 2),
              nb + 1, ArgVal(nb + 1, 1),
              <<BlockVal(nb), BlockVal(nb + 2), eq_lhs(b, glb, eq_guard), eq_rhs(b, glb, eq_guard)>>),
     block |-> nb,
     top_and |-> Append(top_and, ArgVal(nb, 1))]

RECURSIVE aux_guards(_, _, _)
aux_guards(g, glb, eq_guards) ==
    IF eq_guards = <<>> THEN g
    ELSE CHOOSE r \in {aux_guards(n, glb, Tail(eq_guards)) :
                        n \in {aux_guard(g.b, glb, g.block, g.top_and, Head(eq_guards),
                                         next_block(g.b))}} : TRUE

\* lower_block on one guard condition: a constant is its value in place; a
\* call is emitted into block, which continues in a new block whose
\* argument is the result
lower_block(b, block, condition) ==
    IF condition = "const"
    THEN [b |-> b, block |-> block, val |-> ConstVal(TrueTerm)]
    ELSE [b |-> op_call(block_with_args(b, 1), block, ConstVal(ErlangAtom),
                        <<BlockVal(next_block(b))>>),
          block |-> next_block(b),
          val |-> ArgVal(next_block(b), 1)]

lowered_condition(a, l) == [b |-> l.b, block |-> l.block, values |-> Append(a.values, l.val)]

RECURSIVE lower_conditions(_, _)
lower_conditions(a, conditions) ==
    IF conditions = <<>> THEN a
    ELSE CHOOSE r \in {lower_conditions(lowered_condition(a, l), Tail(conditions)) :
                        l \in {lower_block(a.b, a.block, Head(conditions))}} : TRUE

\* one guard of the sequence: and_block takes the result for the bool_or,
\* the conditions are lowered in a chain from block, the bool_and of their
\* values ends the chain, and the lowering goes on in and_block
lowered_guard(o, and_block, a) ==
    [b |-> intrinsic_finish(a.b, a.block, "bool_and", a.values),
     block |-> and_block,
     values |-> Append(o.values, ArgVal(and_block, 1))]

lower_guard(o, guard, and_block) ==
    lowered_guard(o, and_block,
        lower_conditions([b |-> block_with_args(o.b, 1), block |-> o.block,
                          values |-> <<BlockVal(and_block)>>], guard))

RECURSIVE lower_guards(_, _)
lower_guards(o, guard_seq) ==
    IF guard_seq = <<>> THEN o
    ELSE CHOOSE r \in {lower_guards(n, Tail(guard_seq)) :
                        n \in {lower_guard(o, Head(guard_seq), next_block(o.b))}} : TRUE

guards_lowered(g, or_block, o) ==
    [b |-> intrinsic_finish(o.b, o.block, "bool_or", o.values),
     block |-> or_block,
     top_and |-> Append(g.top_and, ArgVal(or_block, 1))]

\* Clause guards: nothing without a guard; otherwise or_block takes the
\* result for the top bool_and and the guards are lowered as a bool_or
clause_guards(g, guard) ==
    IF ~guard.some THEN g
    ELSE guards_lowered(g, next_block(g.b),
            lower_guards([b |-> block_with_args(g.b, 1), block |-> g.block,
                          values |-> <<BlockVal(next_block(g.b))>>], guard.seq))

\* the end of the guard lambda: the top bool_and ends the chain, cond_block
\* returns its result to the return continuation
guard_lambda_finish(g, glb, cond_block) ==
    op_call(intrinsic_finish(g.b, g.block, "bool_and", g.top_and),
            cond_block, ArgVal(glb, 1), <<ArgVal(cond_block, 1)>>)

\* the builder after the guard lambda (glb), its fail handler (glb + 1),
\* its arguments for the binds and the cond block (glb + 2)
guard_lambda_blocks(b, cc, glb) ==
    block_with_args(
        ArgInserts(
            op_call(block_with_args(block_with_args(b, 1), 3),
                    glb + 1, ArgVal(glb, 1), <<ConstVal(FalseTerm)>>),
            glb, Len(cc.binds)),
        1)

\* Construct guard lambda: the function built
guard_lambda(b, cc, guard, glb) ==
    CHOOSE r \in {guard_lambda_finish(g, glb, glb + 2) :
                  g \in {clause_guards(a, guard) :
                         a \in {aux_guards([b |-> s, block |-> glb,
                                            top_and |-> <<BlockVal(glb + 2)>>],
                                           glb, cc.eq_guards) :
                                s \in {guard_lambda_blocks(b, cc, glb)}}}} : TRUE

\* Construct guard lambda: the LowerCtx, with a scope pushed for the binds
\* and the fail handler installed, and both popped at the end
guard_lambda_ctx(ctx, cc, glb) ==
    scope_pop(
        pop_handler(bind_args(push_handler(scope_push(ctx), BlockVal(glb + 1)),
                              cc.binds, glb, 1, 1)),
        scope_token(ctx))

body_ctx_after_ret_cont(ctx, cc, body_block) ==
    bind_args(scope_push(ctx), cc.binds, body_block, 1, 1)

\* Construct body: a scope is pushed, the body block gets one argument per
\* bind and the named binds are bound to them
body_ctx(ctx, cc, body_block) == bind_args(scope_push(ctx), cc.binds, body_block, 0, 1)

body_block_insert(b, cc) == block_with_args(b, Len(cc.binds))

(***************************************************************************)
(* The clauses lowered: what the patterns and the guard of a clause come   *)
(* to.  `binds` are the binds of the patterns in discovery order, `chain`  *)
(* the number of value-producing sub-expressions lowered into pre_case,    *)
(* `nvals` the number of occurrences of a value in the patterns and        *)
(* `eq_value` whether the first bind is constrained by it.                 *)
(***************************************************************************)
Pattern(binds, chain, nvals, eq_value) ==
    [binds |-> binds, chain |-> chain, nvals |-> nvals, eq_value |-> eq_value]

Patterns ==
    {Pattern(<<>>, 0, 0, FALSE),
     Pattern(<<>>, 1, 2, FALSE),
     Pattern(<<"A", "A">>, 0, 0, FALSE),
     Pattern(<<"A", "A">>, 1, 2, TRUE),
     Pattern(<<NoIdent, "B">>, 0, 1, TRUE)}

NoGuard == [some |-> FALSE, seq |-> <<>>]
Guards == {NoGuard, [some |-> TRUE, seq |-> <<<<"call", "const">>, <<"const">>>>]}

ClauseInputs ==
    {[binds |-> p.binds, chain |-> p.chain, nvals |-> p.nvals, eq_value |-> p.eq_value,
      unmatchable |-> u, guard |-> g] : p \in Patterns, u \in BOOLEAN, g \in Guards}

\* the value of the patterns: the one lowered into pre_case, or a constant
pattern_value(input, block) == IF input.chain > 0 THEN ArgVal(block, 1) ELSE Nil

\* duplicate binds of one variable are guarded by EqBind, a bind
\* constrained by a value by EqValue
eq_guards_of(input, v) ==
    (IF Len(input.binds) = 2 /\ input.binds[1] = input.binds[2] /\ input.binds[1] # NoIdent
     THEN <<EqBind(0, 1)>> ELSE <<>>)
    \o (IF input.eq_value /\ input.binds # <<>> THEN <<EqValue(0, v)>> ELSE <<>>)

\* what the Tree hands over to lower_clause
Tree(input, v) ==
    [binds |-> input.binds, eq_guards |-> eq_guards_of(input, v),
     vals |-> [i \in 1..input.nvals |-> v]]

NoClause == [op |-> "none", calls |-> 0]

InitLower ==
    /\ lctx = LowerCtx_new
    /\ lb = [blocks |-> <<EmptyBlockData>>, entry_block |-> 1, pat |-> <<>>]
    /\ pre_case = 1
    /\ lres = [status |-> "none"]
    /\ llast = NoClause
    /\ fun = EmptyFunction /\ dst = EmptyFunction /\ mangler = New /\ phase = "idle"
    /\ ret = None /\ handles = <<>> /\ last = NoRun
    /\ heap = <<>> /\ mods = <<>> /\ mphase = "ok" /\ calls = 0
    /\ mlast = [op |-> "none"]
    /\ afun = EmptyFunction /\ areturned = <<>>

\* no token of a lower_clause call is waiting to be popped
NoToken == lres.status = "none" \/ (lres.status \in {"ok", "fail"} /\ lres.popped)

\* the record of a lower_clause call: its input and the state it was made in
ClauseCall(input) ==
    [op |-> "lower_clause", calls |-> llast.calls + 1, input |-> input,
     ctx |-> lctx, b |-> lb, pre_case |-> pre_case]

\* the assertion on pre_case failed
LowerClauseAborts(input) ==
    /\ lres' = [status |-> "aborted"]
    /\ llast' = ClauseCall(input)
    /\ UNCHANGED <<lctx, lb, pre_case>>

\* Err(LoweredClauseFail): pre_case is not written back
LowerClauseFails(input, t) ==
    /\ \E u \in {lower_clause_unmatchable(lctx, input.binds)} :
         /\ lctx' = u.ctx
         /\ lres' = [status |-> "fail", scope_token |-> u.scope_token, popped |-> FALSE]
    /\ lb' = t.b
    /\ llast' = ClauseCall(input)
    /\ UNCHANGED pre_case

\* Ok(LoweredClause)
LowerClauseLowers(input, t) ==
    \E l \in {tree_lower(ClauseLowerCtx(t.pat_clause, t.pre_case), t.b,
                         Tree(input, pattern_value(input, t.pre_case)))} :
      \E glb \in {next_block(l.b)} :
        \E gb \in {guard_lambda(l.b, l.cc, input.guard, glb)} :
          \E gc \in {guard_lambda_ctx(lctx, l.cc, glb)} :
            /\ lb' = body_block_insert(gb, l.cc)
            /\ lctx' = body_ctx(gc.ctx, l.cc, next_block(gb))
            /\ pre_case' = l.cc.pre_case
            /\ lres' = [status |-> IF gc.ok THEN "ok" ELSE "aborted",
                        scope_token |-> scope_token(gc.ctx), popped |-> FALSE,
                        clause |-> l.cc.pat_clause, body |-> next_block(gb),
                        guard |-> BlockVal(glb), values |-> l.cc.values]
            /\ llast' = ClauseCall(input)

LowerClause(input) ==
    /\ NoToken
    /\ llast.calls < MaxClauses
    /\ \E t \in {lower_clause_tree(lb, pre_case, input)} :
         IF ~t.ok THEN LowerClauseAborts(input)
         ELSE IF input.unmatchable THEN LowerClauseFails(input, t)
         ELSE LowerClauseLowers(input, t)

\* the caller pops the token lower_clause returned
PopToken ==
    /\ lres.status \in {"ok", "fail"} /\ ~lres.popped
    /\ \E r \in {scope_pop(lctx, lres.scope_token)} :
         /\ lctx' = r.ctx
         /\ lres' = IF r.ok THEN [lres EXCEPT !.popped = TRUE] ELSE [status |-> "aborted"]
    /\ UNCHANGED <<lb, pre_case, llast>>

\* the caller pushes a scope of its own
CallerPush ==
    /\ NoToken
    /\ Len(lctx.scope) < 1 + MaxCallerFrames
    /\ lctx' = scope_push(lctx)
    /\ UNCHANGED <<lb, pre_case, lres, llast>>

\* the caller binds a variable in the scope on top, between two clauses
CallerBind(name) ==
    /\ NoToken
    /\ lctx' = bind(lctx, name, ArgVal(1, 1))
    /\ UNCHANGED <<lb, pre_case, lres, llast>>

NextLower ==
    \/ (\E input \in ClauseInputs : LowerClause(input)) /\ UNCHANGED <<mangleVars, moduleVars, arenaVars>>
    \/ PopToken /\ UNCHANGED <<mangleVars, moduleVars, arenaVars>>
    \/ CallerPush /\ UNCHANGED <<mangleVars, moduleVars, arenaVars>>
    \/ (\E name \in CallerNames : CallerBind(name)) /\ UNCHANGED <<mangleVars, moduleVars, arenaVars>>

SpecLower == InitLower /\ [][NextLower]_vars

\* the variable names of a pattern
NamedBinds(binds) == {binds[i] : i \in DOMAIN binds} \ {NoIdent}

\* lower_clause returned Err(LoweredClauseFail) and its token is not popped yet
FailedUnpopped == lres.status = "fail" /\ ~lres.popped

\* the step in which the caller pops the token of a failed lower_clause
FailedPopStep == FailedUnpopped /\ lres'.status = "fail" /\ lres'.popped

\* C10: when lower_clause fails on an unmatchable tree, it has pushed exactly
\* one scope frame, the one its token names; the frames below are those of
\* before the call, the pseudo-binds of the pattern's variable names are all
\* in the token's frame, and popping the token leaves exactly the scope of
\* before the call.
ScopeRestoredOnFailure ==
    /\ [](FailedUnpopped =>
            /\ Len(lctx.scope) = Len(llast.ctx.scope) + 1
            /\ lres.scope_token = Len(lctx.scope)
            /\ SubSeq(lctx.scope, 1, Len(llast.ctx.scope)) = llast.ctx.scope
            /\ DOMAIN lctx.scope[lres.scope_token] = NamedBinds(llast.input.binds)
            /\ \A name \in NamedBinds(llast.input.binds) :
                  lctx.scope[lres.scope_token][name] = Sentinel)
    /\ [][FailedPopStep => lctx'.scope = llast.ctx.scope]_vars

\* a clause on a variable the caller has bound in a frame of its own failed,
\* and its token was popped
FailedClausePopped ==
    /\ lres.status = "fail" /\ lres.popped
    /\ llast.input.binds = <<"A", "A">>
    /\ Len(llast.ctx.scope) = 2
    /\ "A" \in DOMAIN llast.ctx.scope[2]
    /\ lctx.scope = llast.ctx.scope

(***************************************************************************)
(* The arenas of a Function.  Block and Value handles are the keys         *)
(* PrimaryMap::push returns: the position of the pushed element.  The      *)
(* builder's block_arg_insert pushes the argument on the value arena and   *)
(* appends its handle to the arguments of the block.                       *)
(***************************************************************************)
\* block_insert and block_arg_insert calls in one run
MaxArenaCalls == 6

\* the handle the next push on the value arena returns
next_value(f) == Len(f.values) + 1

value_push_arg(f, b) ==
    [block_arg_insert(f, b) EXCEPT !.values = Append(@, [kind |-> "Arg", block |-> b])]

ReturnedHandle(op, handle, b) == [op |-> op, handle |-> handle, block |-> b]

InitArena ==
    /\ afun = Function_new(FunctionIdent("m", "f", 0))
    /\ areturned = <<>>
    /\ fun = EmptyFunction /\ dst = EmptyFunction /\ mangler = New /\ phase = "idle"
    /\ ret = None /\ handles = <<>> /\ last = NoRun
    /\ heap = <<>> /\ mods = <<>> /\ mphase = "ok" /\ calls = 0
    /\ mlast = [op |-> "none"]
    /\ lctx = <<>> /\ lb = EmptyFunction /\ pre_case = None
    /\ lres = [status |-> "none"] /\ llast = [op |-> "none"]

ArenaBlockInsert ==
    /\ Len(areturned) < MaxArenaCalls
    /\ afun' = block_insert(afun)
    /\ areturned' = Append(areturned, ReturnedHandle("block_insert", next_block(afun), None))

ArenaBlockArgInsert(b) ==
    /\ Len(areturned) < MaxArenaCalls
    /\ afun' = value_push_arg(afun, b)
    /\ areturned' = Append(areturned, ReturnedHandle("block_arg_insert", next_value(afun), b))

NextArena ==
    \/ ArenaBlockInsert /\ UNCHANGED <<mangleVars, moduleVars, lowerVars>>
    \/ (\E b \in DOMAIN afun.blocks : ArenaBlockArgInsert(b))
          /\ UNCHANGED <<mangleVars, moduleVars, lowerVars>>

SpecArena == InitArena /\ [][NextArena]_vars

\* the handles returned by the calls of one operation, in call order
RECURSIVE HandlesOf(_, _)
HandlesOf(log, op) ==
    IF log = <<>> THEN <<>>
    ELSE (IF Head(log).op = op THEN <<Head(log).handle>> ELSE <<>>) \o HandlesOf(Tail(log), op)

StrictlyIncreasing(hs) == \A i, j \in DOMAIN hs : i < j => hs[i] < hs[j]

\* C11: the Block handles returned by block_insert are strictly increasing
\* in call order (hence pairwise distinct), and so are the Value handles
\* returned by block_arg_insert; the block block_insert has just returned
\* has no arguments, no operation and no reads; the function of new(ident)
\* has no entry block and empty arenas.
ArenaMonotonic ==
    /\ StrictlyIncreasing(HandlesOf(areturned, "block_insert"))
    /\ StrictlyIncreasing(HandlesOf(areturned, "block_arg_insert"))
    /\ \A i \in DOMAIN areturned :
          IF areturned[i].op = "block_insert"
          THEN areturned[i].handle \in DOMAIN afun.blocks
          ELSE /\ areturned[i].handle \in DOMAIN afun.values
               /\ afun.values[areturned[i].handle] = [kind |-> "Arg", block |-> areturned[i].block]
    /\ (areturned # <<>> /\ areturned[Len(areturned)].op = "block_insert") =>
          /\ block_args(afun, areturned[Len(areturned)].handle) = <<>>
          /\ block_kind(afun, areturned[Len(areturned)].handle) = "None"
          /\ block_reads(afun, areturned[Len(areturned)].handle) = <<>>
    /\ areturned = <<>> =>
          /\ afun.entry_block = None
          /\ afun.blocks = <<>> /\ afun.values = <<>> /\ afun.fun_refs = <<>>

\* C11's case: blocks and arguments were inserted in turn, a block after an
\* argument of an earlier block
ArenaInterleaved ==
    /\ Len(HandlesOf(areturned, "block_insert")) >= 2
    /\ Len(HandlesOf(areturned, "block_arg_insert")) >= 2
    /\ areturned[Len(areturned)].op = "block_insert"
    /\ \E i \in DOMAIN areturned : areturned[i].op = "block_arg_insert" /\ areturned[i].block = 1

(***************************************************************************)
(* Scope determination.                                                    *)
(***************************************************************************)
\* the blocks reachable from `front` along paths none of whose blocks is in `avoid`
RECURSIVE ReachAvoiding(_, _, _, _)
ReachAvoiding(f, front, seen, avoid) ==
    IF (front \ avoid) \subseteq seen THEN seen
    ELSE ReachAvoiding(f, UNION {outgoing(f, b) : b \in front \ avoid},
                       seen \cup (front \ avoid), avoid)

(***************************************************************************)
(* C12 as stated: after run, a block is in the scope iff it is reachable   *)
(* from the entry in the source block graph and no rename source names it. *)
(***************************************************************************)
ScopeIsReachableMinusRenamed ==
    RanOk => last.scope = Reach(last.src, last.entry) \ Frontier

(***************************************************************************)
(* C12 as amended: after run, a block is in the scope iff it is reachable  *)
(* from the entry along a path none of whose blocks, the entry and the     *)
(* block itself included, is named by a rename source: the successors of   *)
(* a renamed block are not traversed.  The scope blocks are the blocks     *)
(* that got a fresh copy.                                                  *)
(***************************************************************************)
ScopeIsReachableUpToRenamed ==
    RanOk =>
        /\ last.scope = ReachAvoiding(last.src, {last.entry}, {}, Frontier)
        /\ last.scope \subseteq Reach(last.src, last.entry) \ Frontier
        /\ \A b \in last.scope : ScopeCopy(b) \notin DOMAIN last.src.blocks

\* C12's case: in the chain b1 -> b2 -> b3 started at b1, b2 is renamed; b3
\* is reachable in the source graph only through b2
ChainFrontierRan ==
    /\ RanOk /\ last.src = ChainFunction /\ last.entry = 1
    /\ Frontier = {2}
    /\ last.scope = {1}

(***************************************************************************)
(* Source normalization.                                                   *)
(***************************************************************************)
\* a rename keyed by a value of kind Block
BlockValueKey(k) == k.tag = "Value" /\ k.val.kind = "Block"

\* the renames given name a block twice, by its value and by itself, with
\* different destinations
NormalizeConflict ==
    \E k \in DOMAIN last.renames :
        /\ BlockValueKey(k)
        /\ SrcBlock(k.val.block) \in DOMAIN last.renames
        /\ last.renames[SrcBlock(k.val.block)] # last.renames[k]

\* C13: every rename keyed by a value of kind Block(b) is re-keyed to the
\* block key Block(b) with the same destination and the value key is
\* removed, so no rename key of the run is a value of kind Block and every
\* other rename is kept; when a block-keyed rename for b exists with a
\* different destination the run aborts, and with an equal destination
\* the run goes on with that single rename.
SourcesNormalized ==
    last.op # "none" =>
        IF NormalizeConflict THEN phase = "aborted" /\ ret = None
        ELSE /\ \A k \in DOMAIN last.map : ~BlockValueKey(k)
             /\ \A k \in DOMAIN last.renames :
                   IF BlockValueKey(k)
                   THEN last.map[SrcBlock(k.val.block)] = last.renames[k]
                   ELSE last.map[k] = last.renames[k]

\* C13's case: a block renamed by its value and by itself to the same
\* destination, and the run returned
NormalizedTwiceRan ==
    /\ RanOk
    /\ \E k \in DOMAIN last.renames :
          /\ BlockValueKey(k)
          /\ SrcBlock(k.val.block) \in DOMAIN last.renames
          /\ last.map[SrcBlock(k.val.block)] = last.renames[k]

(***************************************************************************)
(* Destination allocation.                                                 *)
(***************************************************************************)
\* the i-th argument of the scope block b, and of its destination block
SrcArg(b, i) == block_args(last.src, b)[i]

DstArg(b, i) == block_args(fun, ScopeCopy(b))[i]

\* C14: for every block of the scope the run allocates exactly one fresh
\* destination block, with as many arguments as the source block; a source
\* argument without a prior rename is mapped to the destination argument
\* at the same position; a source argument that already has a rename
\* keeps it, and its destination argument is there but read by no copied
\* block.
DestinationAllocated ==
    RanOk =>
        /\ Len(fun.blocks) = Len(last.src.blocks) + 1 + Cardinality(last.scope)
        /\ \A b \in last.scope :
              /\ last.map[SrcBlock(b)].tag = "Block"
              /\ ScopeCopy(b) \in (DOMAIN fun.blocks) \ (DOMAIN last.src.blocks)
              /\ ScopeCopy(b) # ret
              /\ \A c \in last.scope : ScopeCopy(b) = ScopeCopy(c) => b = c
              /\ Len(block_args(fun, ScopeCopy(b))) = Len(block_args(last.src, b))
              /\ \A i \in DOMAIN block_args(last.src, b) :
                    IF SrcValue(SrcArg(b, i)) \in DOMAIN last.renames
                    THEN /\ last.map[SrcValue(SrcArg(b, i))] = last.renames[SrcValue(SrcArg(b, i))]
                         /\ \A p \in CopiedPairs : DstArg(b, i) \notin Range(block_reads(fun, p[2]))
                    ELSE last.map[SrcValue(SrcArg(b, i))] = DstValue(DstArg(b, i))

\* C14's case: a scope block of two arguments, one renamed before the run
\* and one not, both read by a copied block
DestinationAllocatedRan ==
    /\ RanOk
    /\ \E b \in last.scope : \E i, j \in DOMAIN block_args(last.src, b) :
          /\ SrcValue(SrcArg(b, i)) \in DOMAIN last.renames
          /\ SrcValue(SrcArg(b, j)) \notin DOMAIN last.renames
          /\ \E c \in last.scope : {SrcArg(b, i), SrcArg(b, j)} \subseteq Range(block_reads(last.src, c))

(***************************************************************************)
(* The scope walk of run_inner, one iteration of the worklist loop per     *)
(* step.  The mangler holds the worklist (to_walk) and the scope; `last`   *)
(* records the blocks inserted into the scope, in order, and the           *)
(* iteration made last.                                                    *)
(***************************************************************************)
walk_step_into_renamed(f, map, to_walk, scope) ==
    IF to_walk[Len(to_walk)] \in scope
    THEN [to_walk |-> SubSeq(to_walk, 1, Len(to_walk) - 1), scope |-> scope]
    ELSE [to_walk |-> SubSeq(to_walk, 1, Len(to_walk) - 1)
                        \o SetToSeq(outgoing(f, to_walk[Len(to_walk)])),
          scope |-> scope \cup {to_walk[Len(to_walk)]}]

\* one iteration of `while let Some(block) = self.to_walk.pop()`
walk_step(f, map, to_walk, scope) ==
    IF to_walk[Len(to_walk)] \in scope
    THEN [to_walk |-> SubSeq(to_walk, 1, Len(to_walk) - 1), scope |-> scope]
    ELSE IF SrcBlock(to_walk[Len(to_walk)]) \in DOMAIN map
    THEN [to_walk |-> SubSeq(to_walk, 1, Len(to_walk) - 1), scope |-> scope]
    ELSE [to_walk |-> SubSeq(to_walk, 1, Len(to_walk) - 1)
                        \o SetToSeq(outgoing(f, to_walk[Len(to_walk)])),
          scope |-> scope \cup {to_walk[Len(to_walk)]}]

\* the rename maps of a walk: after normalisation only block keys matter
WalkMaps(f) ==
    {EmptyMap} \cup {MapInsert(EmptyMap, SrcBlock(b), DstValue(Nil)) : b \in DOMAIN f.blocks}

InitWalk ==
    /\ fun \in SourceFunctions
    /\ \E entry \in DOMAIN fun.blocks : \E map \in WalkMaps(fun) :
          mangler = [start(New, entry) EXCEPT !.map = map]
    /\ phase = "normalized"
    /\ last = [inserted |-> <<>>, block |-> None, before |-> New]
    /\ dst = EmptyFunction /\ ret = None /\ handles = <<>>
    /\ heap = <<>> /\ mods = <<>> /\ mphase = "ok" /\ calls = 0
    /\ mlast = [op |-> "none"]
    /\ lctx = <<>> /\ lb = EmptyFunction /\ pre_case = None
    /\ lres = [status |-> "none"] /\ llast = [op |-> "none"]
    /\ afun = EmptyFunction /\ areturned = <<>>

\* self.to_walk.push(entry)
WalkBegin ==
    /\ phase = "normalized"
    /\ mangler' = [mangler EXCEPT !.to_walk = Append(@, mangler.entry)]
    /\ phase' = "walking"
    /\ UNCHANGED <<fun, dst, ret, handles, last>>

WalkStep ==
    /\ phase = "walking"
    /\ mangler.to_walk # <<>>
    /\ \E w \in {walk_step(fun, mangler.map, mangler.to_walk, mangler.scope)} :
         /\ mangler' = [mangler EXCEPT !.to_walk = w.to_walk, !.scope = w.scope]
         /\ last' = [inserted |-> IF w.scope = mangler.scope THEN last.inserted
                                  ELSE Append(last.inserted, mangler.to_walk[Len(mangler.to_walk)]),
                     block |-> mangler.to_walk[Len(mangler.to_walk)],
                     before |-> mangler]
    /\ UNCHANGED <<fun, dst, phase, ret, handles>>

\* pop returns None: the loop is left
WalkEnd ==
    /\ phase = "walking"
    /\ mangler.to_walk = <<>>
    /\ phase' = "walked"
    /\ UNCHANGED <<fun, dst, mangler, ret, handles, last>>

NextWalk ==
    \/ WalkBegin /\ UNCHANGED <<moduleVars, lowerVars, arenaVars>>
    \/ WalkStep /\ UNCHANGED <<moduleVars, lowerVars, arenaVars>>
    \/ WalkEnd /\ UNCHANGED <<moduleVars, lowerVars, arenaVars>>

\* the loop runs on: an iteration that can be made is made
SpecWalk == InitWalk /\ [][NextWalk]_vars /\ WF_vars(NextWalk)

\* the iteration made last popped a block that is in the scope already or
\* is named by a rename
SkippedBlock ==
    \/ last.block \in last.before.scope
    \/ SrcBlock(last.block) \in DOMAIN last.before.map

\* C15: the scope walk terminates on every finite source block graph,
\* cycles and self-loops included; each block is inserted into the scope at
\* most once; an iteration that pops a block already in the scope or named
\* by a rename pushes nothing and inserts nothing.  The scope the loop ends
\* with is the scope of `run`.
WalkTerminates ==
    /\ <>(phase = "walked")
    /\ [](/\ \A i, j \in DOMAIN last.inserted : last.inserted[i] = last.inserted[j] => i = j
          /\ mangler.scope = Range(last.inserted)
          /\ (last.block # None /\ SkippedBlock) =>
                /\ mangler.scope = last.before.scope
                /\ mangler.to_walk
                     = SubSeq(last.before.to_walk, 1, Len(last.before.to_walk) - 1)
          /\ phase = "walked" =>
                /\ mangler.to_walk = <<>>
                /\ mangler.scope = walk_scope(fun, mangler.map, <<mangler.entry>>, {}))

\* C15's case: the walk ended on a graph with a cycle through the entry and
\* a self-loop, having popped a block that was in the scope already
WalkedCycle ==
    /\ phase = "walked"
    /\ \E b \in mangler.scope : b # mangler.entry /\ mangler.entry \in outgoing(fun, b)
    /\ \E b \in mangler.scope : b \in outgoing(fun, b)
    /\ last.block \in last.before.scope

(***************************************************************************)
(* C16 as stated: within one clause, a value registered twice through      *)
(* clause_value gets one PatternValue slot and is once in the clause's     *)
(* `values`; `values` is as long as the number of slots created on the     *)
(* clause.                                                                 *)
(***************************************************************************)
PatternValueDedup ==
    lres.status = "ok" =>
        /\ \A i, j \in DOMAIN lres.values : lres.values[i] = lres.values[j] => i = j
        /\ Len(lres.values) = lb.pat[lres.clause]

\* the positions of a bind list that carry the name last
LastNamed(binds) ==
    {i \in DOMAIN binds : binds[i] # NoIdent /\ \A j \in DOMAIN binds : j > i => binds[j] # binds[i]}

\* lower_clause returned Ok and its token is not popped yet
LoweredUnpopped == lres.status = "ok" /\ ~lres.popped

GuardCont(b, block) ==
    IF block_kind(b, block) = "Call"
    THEN IF Len(block_reads(b, block)) >= 2 /\ block_reads(b, block)[2].kind = "Block"
         THEN block_reads(b, block)[2].block ELSE None
    ELSE IF block_kind(b, block) \in {"CaptureFunction", "bool_and", "bool_or"}
         THEN block_reads(b, block)[1].block
         ELSE None

\* the blocks control passes through from block on
RECURSIVE GuardChain(_, _, _)
GuardChain(b, block, fuel) ==
    IF fuel = 0 \/ GuardCont(b, block) = None THEN <<block>>
    ELSE <<block>> \o GuardChain(b, GuardCont(b, block), fuel - 1)

\* the operations a guard sequence is lowered to, in control order
RECURSIVE ConditionOps(_)
ConditionOps(conditions) ==
    IF conditions = <<>> THEN <<"bool_and">>
    ELSE (IF Head(conditions) = "call" THEN <<"Call">> ELSE <<>>) \o ConditionOps(Tail(conditions))

RECURSIVE GuardSeqOps(_)
GuardSeqOps(guard_seq) ==
    IF guard_seq = <<>> THEN <<"bool_or">>
    ELSE ConditionOps(Head(guard_seq)) \o GuardSeqOps(Tail(guard_seq))

\* the operations of a guard lambda with k auxiliary guards, in control order
GuardLambdaOps(k, guard) ==
    [i \in 1..(2 * k) |-> IF i % 2 = 1 THEN "CaptureFunction" ELSE "Call"]
    \o (IF guard.some THEN GuardSeqOps(guard.seq) ELSE <<>>)
    \o <<"bool_and", "Call">>

\* the auxiliary guards of the clause lower_clause lowered last
LoweredEqGuards == eq_guards_of(llast.input, pattern_value(llast.input, pre_case))

\* the operands of the bool_and of one guard: the value of each condition
ConditionOperands(b, chain, at, conditions) ==
    [c \in DOMAIN conditions |->
        IF conditions[c] = "const" THEN ConstVal(TrueTerm)
        ELSE ArgVal(chain[at + Cardinality({d \in 1..c : conditions[d] = "call"})], 1)]

(***************************************************************************)
(* C18: after lower_clause returned Ok, control in the guard lambda runs   *)
(* from the lambda block through, for every auxiliary guard in order, a    *)
(* capture of erlang:'=:='/2 and a call of the captured function with the  *)
(* guard's operands (arguments i + 1 and j + 1 of the lambda block,        *)
(* counted from zero, for EqBind(i, j); argument i + 1 and v for           *)
(* EqValue(i, v)), then through the bool_and of every guard of the guard   *)
(* sequence and their bool_or when a guard sequence is given, to one       *)
(* bool_and whose operands are the results of all auxiliary guards and of  *)
(* the bool_or, and whose result the last block passes to the return       *)
(* continuation.  The failure handler is a block of three arguments that   *)
(* calls the return continuation with false, and the handler stack is as   *)
(* before the call.                                                        *)
(***************************************************************************)
GuardLambdaBody ==
    lres.status = "ok" =>
        LET glb == lres.guard.block
            ret_cont == ArgVal(glb, 1)
            eqs == LoweredEqGuards
            k == Len(eqs)
            guard == llast.input.guard
            chain == GuardChain(lb, glb, Len(lb.blocks))
            top == chain[Len(chain) - 1]
            cond == chain[Len(chain)]
            new == (DOMAIN lb.blocks) \ (DOMAIN llast.b.blocks)
        IN  /\ [i \in DOMAIN chain |-> block_kind(lb, chain[i])] = GuardLambdaOps(k, guard)
            /\ Range(chain) \subseteq new
            /\ \A m \in 1..k :
                  /\ block_reads(lb, chain[2 * m - 1]) =
                        <<BlockVal(chain[2 * m]), ConstVal(ErlangAtom), ConstVal(ExactEqAtom),
                          ConstVal(TwoTerm)>>
                  /\ Len(block_reads(lb, chain[2 * m])) = 5
                  /\ block_reads(lb, chain[2 * m])[1] = ArgVal(chain[2 * m], 1)
                  /\ block_reads(lb, chain[2 * m])[2] = BlockVal(chain[2 * m + 1])
                  /\ block_reads(lb, chain[2 * m])[3].kind = "Block"
                  /\ block_kind(lb, block_reads(lb, chain[2 * m])[3].block) = "Unreachable"
                  /\ block_reads(lb, chain[2 * m])[4] = ArgVal(glb, eqs[m].lhs + 2)
                  /\ block_reads(lb, chain[2 * m])[5] =
                        IF eqs[m].tag = "EqBind" THEN ArgVal(glb, eqs[m].rhs + 2) ELSE eqs[m].val
                  /\ {eqs[m].lhs + 2} \cup (IF eqs[m].tag = "EqBind" THEN {eqs[m].rhs + 2} ELSE {})
                        \subseteq DOMAIN block_args(lb, glb)
            /\ block_reads(lb, top) =
                  <<BlockVal(cond)>> \o [m \in 1..k |-> ArgVal(chain[2 * m + 1], 1)]
                  \o (IF guard.some THEN <<ArgVal(top, 1)>> ELSE <<>>)
            /\ guard.some =>
                  LET or == chain[Len(chain) - 2]
                      ands == SelectSeq(SubSeq(chain, 2 * k + 1, Len(chain) - 3),
                                        LAMBDA x : block_kind(lb, x) = "bool_and")
                  IN  /\ Len(ands) = Len(guard.seq)
                      /\ block_reads(lb, or) =
                            <<BlockVal(top)>> \o [q \in DOMAIN ands |-> ArgVal(GuardCont(lb, ands[q]), 1)]
                      /\ \A q \in DOMAIN ands :
                            \E at \in DOMAIN chain :
                              /\ chain[at] = (IF q = 1 THEN chain[2 * k + 1] ELSE GuardCont(lb, ands[q - 1]))
                              /\ block_reads(lb, ands[q]) =
                                    <<BlockVal(GuardCont(lb, ands[q]))>>
                                    \o ConditionOperands(lb, chain, at, guard.seq[q])
            /\ ~guard.some => \A x \in new : block_kind(lb, x) # "bool_or"
            /\ block_reads(lb, cond) = <<ret_cont, ArgVal(cond, 1)>>
            /\ block_args(lb, cond) = <<ArgVal(cond, 1)>>
            /\ \E h \in new \ Range(chain) :
                  /\ Len(block_args(lb, h)) = 3
                  /\ block_kind(lb, h) = "Call"
                  /\ block_reads(lb, h) = <<ret_cont, ConstVal(FalseTerm)>>
            /\ lctx.exc_stack = llast.ctx.exc_stack

\* pat(A, A) without a guard was lowered: two binds, one EqBind(0, 1), and a
\* guard lambda that calls erlang:'=:='/2 with its two bind arguments
DuplicateBindLowered ==
    /\ lres.status = "ok"
    /\ llast.input.binds = <<"A", "A">> /\ ~llast.input.eq_value /\ ~llast.input.guard.some
    /\ LoweredEqGuards = <<EqBind(0, 1)>>
    /\ LET glb == lres.guard.block
           call == GuardCont(lb, glb)
       IN  /\ block_kind(lb, glb) = "CaptureFunction"
           /\ SubSeq(block_reads(lb, call), 4, 5) = <<ArgVal(glb, 2), ArgVal(glb, 3)>>

\* a clause with an EqValue guard and a guard sequence was lowered
GuardSequenceLowered ==
    /\ lres.status = "ok"
    /\ llast.input.guard.some
    /\ \E m \in DOMAIN LoweredEqGuards : LoweredEqGuards[m].tag = "EqValue"
    /\ \E x \in DOMAIN lb.blocks : block_kind(lb, x) = "bool_or" /\ Len(block_reads(lb, x)) = 3

\* the last block of the pre-case chain the patterns of the last
\* lower_clause call were lowered into
PreCaseChainEnd ==
    tree_add_root(pat_clause_start(llast.b), llast.pre_case, llast.input.chain).pre_case

(***************************************************************************)
(* C19 as stated: whenever lower_clause has returned, Ok or Err, the       *)
(* caller's pre_case is the last block of the pre-case chain built for the *)
(* patterns and has no operation, so the entry assertion of a following    *)
(* lower_clause call holds.                                                *)
(***************************************************************************)
PreCaseHandedBack ==
    lres.status \in {"ok", "fail"} =>
        /\ pre_case = PreCaseChainEnd
        /\ block_kind(lb, pre_case) = "None"

\* the name map of module m sends a key to index exactly when the function
\* stored at index has that name and arity
NameMapExact(m) ==
    \A index \in 0..(Len(mods[m].functions) - 1) :
        \A k \in (DOMAIN mods[m].name_map) \cup {key_of(heap, def_at(mods[m], index))} :
            (k \in DOMAIN mods[m].name_map /\ mods[m].name_map[k] = index)
                <=> k = key_of(heap, def_at(mods[m], index))

(***************************************************************************)
(* C20 as stated: in every module made by new, add_function and clone      *)
(* calls, the definition stored at every FunctionIndex i reports index i,  *)
(* and the name map sends (name, arity) to i exactly when the function     *)
(* stored at i has that name and arity.                                    *)
(***************************************************************************)
ModuleIndexConsistent ==
    \A m \in DOMAIN mods :
        /\ \A index \in 0..(Len(mods[m].functions) - 1) : def_at(mods[m], index).index = index
        /\ NameMapExact(m)
=============================================================================
